---- MODULE Spec2Model ----
(***************************************************************************)
(* Slashing-protection stores of the validator client.                     *)
(*                                                                         *)
(*  - the sqlite-backed HistoryInfo<T> of slashing_protection.rs           *)
(*    (empty / open / update_if_valid, CheckAndInsert, LoadData), for      *)
(*    T = SignedBlock and T = SignedAttestation: specification Spec;       *)
(*  - the file-backed HistoryInfo<T> of main.rs, used by the threads of    *)
(*    run() (try_from / check_for_slashing / update_and_write):            *)
(*    specification SpecRun;                                               *)
(*  - either of the two programs: specification SpecAll.                   *)
(***************************************************************************)
EXTENDS Integers, Sequences, FiniteSets, TLC

VARIABLES
    kind,       \* "block" or "att": the T of the HistoryInfo<T> under study
                \* ("att_interlaced": attestations, fed by the test of that name)
    file,       \* the path: "absent", "empty" (a file that holds no table) or "db"
    disk,       \* the rows of the table (signed integers, as stored)
    store,      \* "none" (no HistoryInfo alive) or "open"
    data,       \* HistoryInfo.data, the in-memory Vec<T>
    pc,         \* position inside update_if_valid: "idle" or "splice"
    pend,       \* the insert in flight: <<insert_index, incoming_data>>
    ret,        \* what the last call returned
    okd,        \* the candidates for which update_if_valid has returned Ok(())
    last_check, \* the outcome of check_slashing in the last update_if_valid
    rejected,   \* the caller's note of the last Err of check_slashing: the
                \* candidate and the kind (NotKept: the caller keeps no note)
    rfile,      \* main.rs: the history file: whether it exists, and its bytes
    rlock,      \* main.rs: holder of the advisory file lock, 0 when free
    tpc,        \* main.rs: each thread's position in the closure of run()
    tdata,      \* main.rs: each thread's Vec<T> behind its own mutex
    tloaded,    \* main.rs: the Vec<T> each thread's try_from built
    tmutex,     \* main.rs: whether each thread's own mutex is held
    tcand,      \* main.rs: each thread's block header
    tidx,       \* main.rs: the insert_index each thread's check returned
    written     \* main.rs: the records handed to update_and_write and written

vars == <<kind, file, disk, store, data, pc, pend, ret, okd, last_check, rejected,
          rfile, rlock, tpc, tdata, tloaded, tmutex, tcand, tidx, written>>

storeVars ==
    <<kind, file, disk, store, data, pc, pend, ret, okd, last_check, rejected>>
runVars == <<rfile, rlock, tpc, tdata, tloaded, tmutex, tcand, tidx, written>>

(***************************************************************************)
(* Bounds.                                                                 *)
(***************************************************************************)
\* Width of a slot / epoch (u64 in the source, stored as i64).
KeyBits == 3
\* Rows the table may hold.
MaxRows == 3
\* Threads of run().
NumThreads == 2

Pow2(n) == 2 ^ n
Modulus == Pow2(KeyBits)
Half == Pow2(KeyBits - 1)
\* The slots and epochs submitted: 0, two small ones, and the first one that is
\* stored as a negative integer.
Keys == {0, 1, 2, Half}
\* The block headers that exist for one slot (the random roots of block_builder),
\* and the attestations for one source/target pair (attestation_and_custody_bit_builder
\* fixes every other field).
BlockVariants == {1, 2}
AttVariants == {1}
\* The slots the threads of run() propose.
RunSlots == {0, 1}

(***************************************************************************)
(* Values.                                                                 *)
(***************************************************************************)
\* `x as i64` and `x as u64`, at width KeyBits.
as_i64(x) == IF x >= Half THEN x - Modulus ELSE x
as_u64(i) == IF i < 0 THEN i + Modulus ELSE i

\* BeaconBlockHeader: the slot, and the other fields (the random roots) as a variant.
BlockHeaders == [slot : Keys, variant : BlockVariants]
\* canonical_root(): a hash of the whole header, modelled as injective.
canonical_root(h) == <<h.slot, h.variant>>
\* SignedBlock::from(header)
SignedBlock_from(h) == [slot |-> h.slot, signing_root |-> canonical_root(h)]
\* SignedBlock::new(slot, signing_root)
SignedBlock_new(slot, root) == [slot |-> slot, signing_root |-> root]

Safe(index, reason) == [ok |-> TRUE, insert_index |-> index, reason |-> reason]
NotSafe(k) == [ok |-> FALSE, kind |-> k]

\* Vec::push(element) in the place of Vec::insert(index, element).
VecInsert_push(v, index, e) == Append(v, e)

\* Vec::insert(index, element); panics when index > len.
VecInsert(v, index, e) ==
    SubSeq(v, 1, index) \o <<e>> \o SubSeq(v, index + 1, Len(v))

(***************************************************************************)
(* Rule engine for blocks.                                                 *)
(***************************************************************************)
\* position with None read as Some(0).
rev_position_or_zero(block_history, slot) ==
    LET hits == {i \in 1 .. Len(block_history) : block_history[i].slot <= slot}
    IN  IF hits = {} THEN 0
        ELSE Len(block_history) - (CHOOSE i \in hits : \A j \in hits : j <= i)

\* iter().position(..) without rev(): distance from the front of the first
\* element with slot <= the header's.
rev_position_forward(block_history, slot) ==
    LET hits == {i \in 1 .. Len(block_history) : block_history[i].slot <= slot}
    IN  IF hits = {} THEN -1
        ELSE (CHOOSE i \in hits : \A j \in hits : i <= j) - 1

\* iter().rev().position(|b| b.slot <= slot): distance from the end of the
\* last element with slot <= the header's, -1 for None.
rev_position(block_history, slot) ==
    LET hits == {i \in 1 .. Len(block_history) : block_history[i].slot <= slot}
    IN  IF hits = {} THEN -1
        ELSE Len(block_history) - (CHOOSE i \in hits : \A j \in hits : j <= i)

\* check_for_proposer_slashing with the comparison against the last block's slot
\* made non-strict.
check_for_proposer_slashing_ge(block_header, block_history) ==
    IF Len(block_history) = 0 THEN Safe(0, "EmptyHistory")
    ELSE IF block_header.slot >= block_history[Len(block_history)].slot
         THEN Safe(Len(block_history), "Valid")
    ELSE LET num == rev_position(block_history, block_header.slot)
         IN  IF num = -1 THEN NotSafe("PruningError")
             ELSE LET index == Len(block_history) - 1 - num
                  IN  IF block_history[index + 1].slot = block_header.slot
                      THEN IF block_history[index + 1].signing_root
                                  = canonical_root(block_header)
                           THEN Safe(index, "SameVote")
                           ELSE NotSafe("DoubleBlockProposal")
                      ELSE NotSafe("BlockSlotTooEarly")

\* check_for_proposer_slashing with the index of the last block, not the
\* length, as insert_index of a later slot.
check_for_proposer_slashing_last_index(block_header, block_history) ==
    IF Len(block_history) = 0 THEN Safe(0, "EmptyHistory")
    ELSE IF block_header.slot > block_history[Len(block_history)].slot
         THEN Safe(Len(block_history) - 1, "Valid")
    ELSE LET num == rev_position(block_history, block_header.slot)
         IN  IF num = -1 THEN NotSafe("PruningError")
             ELSE LET index == Len(block_history) - 1 - num
                  IN  IF block_history[index + 1].slot = block_header.slot
                      THEN IF block_history[index + 1].signing_root
                                  = canonical_root(block_header)
                           THEN Safe(index, "SameVote")
                           ELSE NotSafe("DoubleBlockProposal")
                      ELSE NotSafe("BlockSlotTooEarly")

\* check_for_proposer_slashing with the length plus one as insert_index of a
\* later slot.
check_for_proposer_slashing_past_end(block_header, block_history) ==
    IF Len(block_history) = 0 THEN Safe(0, "EmptyHistory")
    ELSE IF block_header.slot > block_history[Len(block_history)].slot
         THEN Safe(Len(block_history) + 1, "Valid")
    ELSE LET num == rev_position(block_history, block_header.slot)
         IN  IF num = -1 THEN NotSafe("PruningError")
             ELSE LET index == Len(block_history) - 1 - num
                  IN  IF block_history[index + 1].slot = block_header.slot
                      THEN IF block_history[index + 1].signing_root
                                  = canonical_root(block_header)
                           THEN Safe(index, "SameVote")
                           ELSE NotSafe("DoubleBlockProposal")
                      ELSE NotSafe("BlockSlotTooEarly")

\* Indexes are those of the source (0-based).
check_for_proposer_slashing(block_header, block_history) ==
    IF Len(block_history) = 0 THEN Safe(0, "EmptyHistory")
    ELSE IF block_header.slot > block_history[Len(block_history)].slot
         THEN Safe(Len(block_history), "Valid")
    ELSE LET num == rev_position(block_history, block_header.slot)
         IN  IF num = -1 THEN NotSafe("PruningError")
             ELSE LET index == Len(block_history) - 1 - num
                  IN  IF block_history[index + 1].slot = block_header.slot
                      THEN IF block_history[index + 1].signing_root
                                  = canonical_root(block_header)
                           THEN Safe(index, "SameVote")
                           ELSE NotSafe("DoubleBlockProposal")
                      ELSE NotSafe("BlockSlotTooEarly")

(***************************************************************************)
(* The table: INSERT under the unique index, SELECT ... ORDER BY.          *)
(***************************************************************************)
\* The rows of `rows` in ascending order of the stored (signed) key; `key` maps
\* each row to its key.
RECURSIVE order_by_asc(_, _)
order_by_asc(rows, key) ==
    IF rows = {} THEN <<>>
    ELSE LET first == CHOOSE r \in rows : \A q \in rows : key[r] <= key[q]
         IN  <<first>> \o order_by_asc(rows \ {first}, key)

\* slice::sort_by on the key: a stable sort, ascending; `key` maps each element
\* to its key.
RECURSIVE sort_by(_, _)
sort_by(v, key) ==
    IF Len(v) <= 1 THEN v
    ELSE LET init == sort_by(SubSeq(v, 1, Len(v) - 1), key)
             x == v[Len(v)]
             n == Cardinality({i \in 1 .. Len(init) : key[init[i]] <= key[x]})
         IN  SubSeq(init, 1, n) \o <<x>> \o SubSeq(init, n + 1, Len(init))

Range(v) == {v[i] : i \in 1 .. Len(v)}
slot_of(rs) == [r \in rs |-> r.slot]
target_of(rs) == [r \in rs |-> r.target_epoch]

\* The table without its unique index on slot.
slot_index_absent(rows, slot_i) == FALSE

\* The unique index slot_index: whether INSERT of this slot is refused.
slot_index_violated(rows, slot_i) == \E r \in rows : r.slot = slot_i

\* The row update_if_valid's INSERT INTO signed_blocks writes.
block_row(incoming_data) ==
    [slot |-> as_i64(incoming_data.slot),
     signing_root |-> canonical_root(incoming_data)]

\* "select slot, signing_root from signed_blocks where slot order by slot asc":
\* `where slot` keeps the rows whose slot is true, that is, not 0.
select_signed_blocks(rows) ==
    LET selected == {r \in rows : r.slot # 0}
    IN  order_by_asc(selected, slot_of(selected))

\* load_data without the final sort_by: the rows in the order the table gives.
load_data_block_unsorted(rows) ==
    LET history == select_signed_blocks(rows)
    IN  [i \in 1 .. Len(history) |->
            SignedBlock_new(as_u64(history[i].slot), history[i].signing_root)]

\* LoadData<SignedBlock>::load_data
load_data_block(rows) ==
    LET history == select_signed_blocks(rows)
        block_history ==
            [i \in 1 .. Len(history) |->
                SignedBlock_new(as_u64(history[i].slot), history[i].signing_root)]
    IN  sort_by(block_history, slot_of(Range(block_history)))

(***************************************************************************)
(* Attestations.                                                           *)
(***************************************************************************)
\* AttestationData: the two checkpoint epochs, and the other fields as a variant;
\* and one attestation that differs from another in those other fields only.
AttestationDatas ==
    [source : Keys, target : Keys, variant : AttVariants]
        \cup {[source |-> 0, target |-> 1, variant |-> 2]}
\* tree_hash_root(): a hash of the whole AttestationData, modelled as injective.
tree_hash_root(d) == <<d.source, d.target, d.variant>>
\* SignedAttestation::new(source_epoch, target_epoch, signing_root)
SignedAttestation_new(source, target, root) ==
    [source_epoch |-> source, target_epoch |-> target, signing_root |-> root]
\* SignedAttestation::from(attestation_data)
SignedAttestation_from(d) ==
    SignedAttestation_new(d.source, d.target, tree_hash_root(d))

\* The attester rule (the rule engine's second predicate).
check_for_attester_slashing(attestation_data, attestation_history) ==
    LET h == attestation_history
        idx == 1 .. Len(h)
        root == tree_hash_root(attestation_data)
        same == {i \in idx : /\ h[i].target_epoch = attestation_data.target
                             /\ h[i].signing_root = root}
        double == {i \in idx : /\ h[i].target_epoch = attestation_data.target
                               /\ h[i].signing_root # root}
        surrounds == {i \in idx : /\ h[i].source_epoch < attestation_data.source
                                  /\ h[i].target_epoch > attestation_data.target}
        surrounded == {i \in idx : /\ h[i].source_epoch > attestation_data.source
                                   /\ h[i].target_epoch < attestation_data.target}
    IN  IF Len(h) = 0 THEN Safe(0, "EmptyHistory")
        ELSE IF same # {}
             THEN Safe((CHOOSE i \in same : \A j \in same : i <= j) - 1, "SameVote")
        ELSE IF double # {} THEN NotSafe("DoubleVote")
        ELSE IF surrounds # {} THEN NotSafe("SurroundedVote")
        ELSE IF surrounded # {} THEN NotSafe("SurroundingVote")
        ELSE Safe(Cardinality({i \in idx : h[i].target_epoch
                                             < attestation_data.target}),
                  "Valid")

\* The unique index target_index: whether INSERT of this target is refused.
target_index_violated(rows, target_i) == \E r \in rows : r.target_epoch = target_i

\* The row update_if_valid's INSERT INTO signed_attestations writes.
attestation_row(incoming_data) ==
    [target_epoch |-> as_i64(incoming_data.target),
     source_epoch |-> as_i64(incoming_data.source),
     signing_root |-> tree_hash_root(incoming_data)]

\* "select target_epoch, source_epoch, signing_root from signed_attestations
\*  order by target_epoch asc"
select_signed_attestations(rows) == order_by_asc(rows, target_of(rows))

\* LoadData<SignedAttestation>::load_data
load_data_attestation(rows) ==
    LET history == select_signed_attestations(rows)
        attestation_history ==
            [i \in 1 .. Len(history) |->
                SignedAttestation_new(as_u64(history[i].source_epoch),
                                      as_u64(history[i].target_epoch),
                                      history[i].signing_root)]
    IN  sort_by(attestation_history, target_of(Range(attestation_history)))

(***************************************************************************)
(* HistoryInfo<T>, T chosen by `kind`.                                     *)
(***************************************************************************)
\* The five attestations of the test interlaced_attestation_insertion,
\* (5, 9), (7, 12), (5, 10), (6, 11), (8, 13) as (source, target): the sources
\* 5 .. 8 taken as 0 .. 3 and the targets 9 .. 13 as 3 .. 7, in the same order.
interlaced_attestations ==
    {[source |-> 0, target |-> 3, variant |-> 1],
     [source |-> 2, target |-> 6, variant |-> 1],
     [source |-> 0, target |-> 4, variant |-> 1],
     [source |-> 1, target |-> 5, variant |-> 1],
     [source |-> 3, target |-> 7, variant |-> 1]}

Kinds == {"block", "att"}
Threads == 1 .. NumThreads
NoData == [none |-> TRUE]
NotKept == [kept |-> FALSE]

\* The caller's note after a call whose rule check gave `check`.
note(old, incoming_data, check) ==
    IF old = NotKept \/ check.ok THEN old
    ELSE [incoming_data |-> incoming_data, kind |-> check.kind]

Candidates(k) ==
    IF k = "block" THEN BlockHeaders
    ELSE IF k = "att" THEN AttestationDatas
    ELSE interlaced_attestations

\* The number of rows the table is let grow to.
RowCap(k) == IF k \in Kinds THEN MaxRows ELSE Cardinality(interlaced_attestations)

\* check_slashing for attestations over &self.data[1..], not &self.data[..].
check_slashing_skip_first(k, incoming_data, history) ==
    IF k = "block"
    THEN check_for_proposer_slashing(incoming_data, history)
    ELSE check_for_attester_slashing(incoming_data,
                                     IF Len(history) = 0 THEN history ELSE Tail(history))

\* CheckAndInsert::check_slashing
check_slashing(k, incoming_data, history) ==
    IF k = "block"
    THEN check_for_proposer_slashing(incoming_data, history)
    ELSE check_for_attester_slashing(incoming_data, history)

\* The temporal key of a candidate and of a record.
KeyOf(k, incoming_data) ==
    IF k = "block" THEN incoming_data.slot ELSE incoming_data.target
RecKey(k, r) == IF k = "block" THEN r.slot ELSE r.target_epoch
RootOf(k, incoming_data) ==
    IF k = "block" THEN canonical_root(incoming_data)
    ELSE tree_hash_root(incoming_data)
Signed_from(k, incoming_data) ==
    IF k = "block" THEN SignedBlock_from(incoming_data)
    ELSE SignedAttestation_from(incoming_data)
RowOf(k, incoming_data) ==
    IF k = "block" THEN block_row(incoming_data)
    ELSE attestation_row(incoming_data)

\* Whether the INSERT statement of CheckAndInsert::insert hits the unique index.
unique_violated(k, rows, incoming_data) ==
    IF k = "block"
    THEN slot_index_violated(rows, as_i64(incoming_data.slot))
    ELSE target_index_violated(rows, as_i64(incoming_data.target))

load_data(k, rows) ==
    IF k = "block" THEN load_data_block(rows) ELSE load_data_attestation(rows)

\* main.rs: a path with no file, and a file holding `bytes`.
AbsentFile == [exists |-> FALSE, bytes |-> <<>>]
FileOf(bytes) == [exists |-> TRUE, bytes |-> bytes]

\* main.rs at rest: no thread of run() has started.
RunIdle ==
    /\ rlock = 0
    /\ tpc = [t \in Threads |-> "start"]
    /\ tdata = [t \in Threads |-> <<>>]
    /\ tloaded = [t \in Threads |-> <<>>]
    /\ tmutex = [t \in Threads |-> FALSE]
    /\ tcand = [t \in Threads |-> NoData]
    /\ tidx = [t \in Threads |-> 0]
    /\ written = {}

\* No HistoryInfo of slashing_protection.rs exists.
StoreIdle ==
    /\ disk = {}
    /\ store = "none"
    /\ data = <<>>
    /\ pc = "idle"
    /\ pend = NoData
    /\ ret = "none"
    /\ okd = {}
    /\ last_check = "none"
    /\ rejected = NotKept

Init ==
    /\ kind \in Kinds
    /\ file \in {"absent", "empty"}
    /\ StoreIdle
    /\ rfile = AbsentFile
    /\ RunIdle

\* empty with the table dropped and created anew.
empty_recreate ==
    /\ store = "none"
    /\ file' = "db"
    /\ disk' = {}
    /\ store' = "open"
    /\ data' = <<>>
    /\ ret' = "Ok(HistoryInfo)"
    /\ last_check' = "none"
    /\ UNCHANGED <<kind, pc, pend, okd, rejected>>

\* open through Connection::open, whose default flags create the file.
open_create ==
    /\ store = "none"
    /\ IF file = "db"
       THEN /\ data' = load_data(kind, disk)
            /\ store' = "open"
            /\ ret' = "Ok(HistoryInfo)"
            /\ UNCHANGED file
       ELSE /\ ret' = "SQLError"
            /\ file' = "empty"
            /\ UNCHANGED <<data, store>>
    /\ last_check' = "none"
    /\ UNCHANGED <<kind, disk, pc, pend, okd, rejected>>

\* SlashingProtection::empty: create the file when absent, CREATE TABLE / UNIQUE
\* INDEX IF NOT EXISTS, and a HistoryInfo with data: Vec::new().
empty ==
    /\ store = "none"
    /\ file' = "db"
    /\ store' = "open"
    /\ data' = <<>>
    /\ ret' = "Ok(HistoryInfo)"
    /\ last_check' = "none"
    /\ UNCHANGED <<kind, disk, pc, pend, okd, rejected>>

\* SlashingProtection::open: fails when the file is absent (no SQLITE_OPEN_CREATE)
\* or holds no table (prepare fails); else loads the table.
open ==
    /\ store = "none"
    /\ IF file = "db"
       THEN /\ data' = load_data(kind, disk)
            /\ store' = "open"
            /\ ret' = "Ok(HistoryInfo)"
       ELSE /\ ret' = "SQLError"
            /\ UNCHANGED <<data, store>>
    /\ last_check' = "none"
    /\ UNCHANGED <<kind, file, disk, pc, pend, okd, rejected>>

\* update_if_valid with one arm of its match changed: "swallow" answers a
\* rejection with Ok(()), "insert_first" runs the INSERT before looking at the
\* check, "no_same_vote" sends a SameVote on to the INSERT.
update_if_valid_variant(incoming_data, io_ok, fault) ==
    /\ store = "open"
    /\ pc = "idle"
    /\ LET check == check_slashing(kind, incoming_data, data)
           row == RowOf(kind, incoming_data)
       IN  /\ last_check' = IF check.ok THEN check.reason ELSE check.kind
           /\ rejected' = note(rejected, incoming_data, check)
           /\ IF ~check.ok
              THEN /\ ret' = IF fault = "swallow" THEN "Ok(())" ELSE check.kind
                   /\ disk' = IF fault = "insert_first" /\ Cardinality(disk) < RowCap(kind)
                              THEN disk \cup {row} ELSE disk
                   /\ okd' = IF fault = "swallow" THEN okd \cup {incoming_data} ELSE okd
                   /\ UNCHANGED <<pc, pend>>
              ELSE IF check.reason = "SameVote" /\ fault # "no_same_vote"
              THEN /\ ret' = "Ok(())"
                   /\ okd' = okd \cup {incoming_data}
                   /\ UNCHANGED <<disk, pc, pend>>
              ELSE IF ~io_ok
              THEN /\ ret' = "SQLError(io)"
                   /\ UNCHANGED <<disk, pc, pend, okd>>
              ELSE IF unique_violated(kind, disk, incoming_data)
              THEN /\ ret' = "SQLError(constraint)"
                   /\ UNCHANGED <<disk, pc, pend, okd>>
              ELSE /\ Cardinality(disk) < RowCap(kind)
                   /\ disk' = disk \cup {row}
                   /\ pc' = "splice"
                   /\ pend' = [insert_index |-> check.insert_index,
                               incoming_data |-> incoming_data]
                   /\ ret' = "running"
                   /\ UNCHANGED okd
    /\ UNCHANGED <<kind, file, store, data>>

update_if_valid_swallow(incoming_data, io_ok) ==
    update_if_valid_variant(incoming_data, io_ok, "swallow")

update_if_valid_insert_first(incoming_data, io_ok) ==
    update_if_valid_variant(incoming_data, io_ok, "insert_first")

update_if_valid_no_same_vote(incoming_data, io_ok) ==
    update_if_valid_variant(incoming_data, io_ok, "no_same_vote")

\* SlashingProtection::update_if_valid up to the end of conn.execute in
\* CheckAndInsert::insert. io_ok: whether the statement meets no storage error.
update_if_valid(incoming_data, io_ok) ==
    /\ store = "open"
    /\ pc = "idle"
    /\ LET check == check_slashing(kind, incoming_data, data)
       IN  /\ last_check' = IF check.ok THEN check.reason ELSE check.kind
           /\ rejected' = note(rejected, incoming_data, check)
           /\ IF ~check.ok
              THEN /\ ret' = check.kind
                   /\ UNCHANGED <<disk, pc, pend, okd>>
              ELSE IF check.reason = "SameVote"
              THEN /\ ret' = "Ok(())"
                   /\ okd' = okd \cup {incoming_data}
                   /\ UNCHANGED <<disk, pc, pend>>
              ELSE IF ~io_ok
              THEN /\ ret' = "SQLError(io)"
                   /\ UNCHANGED <<disk, pc, pend, okd>>
              ELSE IF unique_violated(kind, disk, incoming_data)
              THEN /\ ret' = "SQLError(constraint)"
                   /\ UNCHANGED <<disk, pc, pend, okd>>
              ELSE /\ Cardinality(disk) < RowCap(kind)
                   /\ disk' = disk \cup {RowOf(kind, incoming_data)}
                   /\ pc' = "splice"
                   /\ pend' = [insert_index |-> check.insert_index,
                               incoming_data |-> incoming_data]
                   /\ ret' = "running"
                   /\ UNCHANGED okd
    /\ UNCHANGED <<kind, file, store, data>>

\* The rest of CheckAndInsert::insert: self.data.insert(insert_index, T::from(..)),
\* Ok(()).
insert_splice ==
    /\ store = "open"
    /\ pc = "splice"
    /\ data' = VecInsert(data, pend.insert_index, Signed_from(kind, pend.incoming_data))
    /\ pc' = "idle"
    /\ pend' = NoData
    /\ ret' = "Ok(())"
    /\ okd' = okd \cup {pend.incoming_data}
    /\ UNCHANGED <<kind, file, disk, store, last_check, rejected>>

\* The HistoryInfo goes away: drop(history), the end of its lifetime, or the
\* process dying at any point, also inside update_if_valid.
drop ==
    /\ store = "open"
    /\ store' = "none"
    /\ data' = <<>>
    /\ pc' = "idle"
    /\ pend' = NoData
    /\ ret' = "none"
    /\ last_check' = "none"
    /\ UNCHANGED <<kind, file, disk, okd, rejected>>

Next ==
    \/ (empty /\ UNCHANGED runVars)
    \/ (open /\ UNCHANGED runVars)
    \/ (\E c \in Candidates(kind), io_ok \in BOOLEAN :
            update_if_valid(c, io_ok) /\ UNCHANGED runVars)
    \/ (insert_splice /\ UNCHANGED runVars)
    \/ (drop /\ UNCHANGED runVars)

\* The store of the test interlaced_attestation_insertion.
InitInterlaced ==
    /\ kind = "att_interlaced"
    /\ file \in {"absent", "empty"}
    /\ StoreIdle
    /\ rfile = AbsentFile
    /\ RunIdle

SpecInterlaced == InitInterlaced /\ [][Next]_vars

\* A block store whose caller keeps a note of the last rejection.
InitNoted ==
    /\ kind = "block"
    /\ file \in {"absent", "empty"}
    /\ disk = {}
    /\ store = "none"
    /\ data = <<>>
    /\ pc = "idle"
    /\ pend = NoData
    /\ ret = "none"
    /\ okd = {}
    /\ last_check = "none"
    /\ rejected = NoData
    /\ rfile = AbsentFile
    /\ RunIdle

SpecNoted == InitNoted /\ [][Next]_vars

Spec == Init /\ [][Next]_vars

(***************************************************************************)
(* Properties of the sqlite-backed stores (specification Spec).            *)
(***************************************************************************)
\* The table read back whole: every row, keys as u64, ascending by key.
disk_history(k, rows) ==
    LET recs == IF k = "block"
                THEN {SignedBlock_new(as_u64(r.slot), r.signing_root) : r \in rows}
                ELSE {SignedAttestation_new(as_u64(r.source_epoch),
                                            as_u64(r.target_epoch),
                                            r.signing_root) : r \in rows}
    IN  order_by_asc(recs, [r \in recs |-> RecKey(k, r)])

\* C1: block store: whenever a block (s, A) is in the history, every candidate
\* (s, B) with B # A is rejected with DoubleBlockProposal, and the history never
\* holds two records with the same slot.
C1_DoubleProposalRejected ==
    kind = "block" =>
        /\ \A i \in 1 .. Len(data) : \A h \in BlockHeaders :
              (h.slot = data[i].slot /\ canonical_root(h) # data[i].signing_root)
                  => check_for_proposer_slashing(h, data)
                        = NotSafe("DoubleBlockProposal")
        /\ \A i, j \in 1 .. Len(data) : i # j => data[i].slot # data[j].slot

\* A double proposal has been refused by a store that holds several blocks.
C1_Witness ==
    /\ kind = "block"
    /\ ret = "DoubleBlockProposal"
    /\ Len(data) >= 2

\* C2: attestation store: no record of the history strictly surrounds another,
\* and no two records share a target epoch with differing signing roots.
C2_NoSlashablePairInHistory ==
    kind = "att" =>
        \A i, j \in 1 .. Len(data) :
            i # j =>
                /\ ~(/\ data[i].source_epoch < data[j].source_epoch
                     /\ data[i].target_epoch > data[j].target_epoch)
                /\ (data[i].target_epoch = data[j].target_epoch
                        => data[i].signing_root = data[j].signing_root)

\* C3: block store, across crashes and reopens: update_if_valid never returns
\* Ok for two headers with the same slot and different signing roots.
C3_NoTwoApprovalsForOneSlot ==
    kind = "block" =>
        \A a, b \in okd :
            a.slot = b.slot => canonical_root(a) = canonical_root(b)

\* A block of slot 0 was approved, the store was reopened (slot 0 is on disk and
\* not in memory), and an INSERT was then refused by the unique index.
C3_Witness ==
    /\ kind = "block"
    /\ \E a \in okd : a.slot = 0
    /\ store = "open"
    /\ \A i \in 1 .. Len(data) : data[i].slot # 0
    /\ ret = "SQLError(constraint)"

\* C5: the in-memory history is strictly ascending by temporal key.
C5_HistorySortedStrictly ==
    \A i, j \in 1 .. Len(data) :
        i < j => RecKey(kind, data[i]) < RecKey(kind, data[j])

\* After a successful update_if_valid the history holds three records, the last
\* of them with a key that the table stores as a negative integer.
C5_Witness ==
    /\ Len(data) >= 3
    /\ RecKey(kind, data[Len(data)]) >= Half
    /\ ret = "Ok(())"

\* C6: after a successful update_if_valid the in-memory history equals the
\* table, record for record, in order.
C6_MemoryEqualsDisk ==
    (store = "open" /\ pc = "idle" /\ ret = "Ok(())")
        => data = disk_history(kind, disk)

\* C7: what open would load from the file equals the in-memory history of the
\* store that wrote it.
C7_ReopenYieldsMemory ==
    (store = "open" /\ pc = "idle" /\ ret = "Ok(())")
        => load_data(kind, disk) = data

\* C8: every candidate for which update_if_valid returned Ok is on disk, is in
\* the history open loads, and is answered SameVote by the reopened store.
C8_ApprovedIsDurable ==
    \A c \in okd :
        /\ RowOf(kind, c) \in disk
        /\ Signed_from(kind, c) \in Range(load_data(kind, disk))
        /\ check_slashing(kind, c, load_data(kind, disk)).ok
        /\ check_slashing(kind, c, load_data(kind, disk)).reason = "SameVote"

\* Whether the history holds a record with the candidate's key and signing root.
in_history(k, c, h) ==
    \E i \in 1 .. Len(h) : RecKey(k, h[i]) = KeyOf(k, c) /\ h[i].signing_root = RootOf(k, c)

\* The kinds of rejection of the two rule engines.
NotSafeKinds ==
    {"PruningError", "DoubleBlockProposal", "BlockSlotTooEarly",
     "DoubleVote", "SurroundedVote", "SurroundingVote"}

\* C11: a call of update_if_valid whose rule check rejects the candidate with
\* kind k returns k, approves nothing, starts no insert, and leaves the table and
\* the in-memory history as they were.
C11_RejectionReturnedAndNothingWritten ==
    \A c \in Candidates(kind), io_ok \in BOOLEAN :
        LET check == check_slashing(kind, c, data)
        IN  ~check.ok
            => ~ENABLED (/\ update_if_valid(c, io_ok)
                         /\ ~(/\ ret' = check.kind
                              /\ ret' # "Ok(())"
                              /\ disk' = disk
                              /\ data' = data
                              /\ okd' = okd
                              /\ pc' = "idle"))

\* A rejection came back from a store whose table and history hold records.
C11_Witness ==
    /\ store = "open"
    /\ ret \in NotSafeKinds
    /\ last_check = ret
    /\ Len(data) >= 2
    /\ Cardinality(disk) = Len(data)

\* C12: a candidate whose key and signing root are those of a record of the
\* history is answered Ok(()) through the SameVote arm: no INSERT is run, and
\* the table and the history stay as they were (no second record).
C12_SameVoteWritesNothing ==
    \A c \in Candidates(kind), io_ok \in BOOLEAN :
        in_history(kind, c, data)
        => ~ENABLED (/\ update_if_valid(c, io_ok)
                     /\ ~(/\ ret' = "Ok(())"
                          /\ last_check' = "SameVote"
                          /\ disk' = disk
                          /\ data' = data
                          /\ pc' = "idle"))

\* An attestation already in a history of two records was submitted again.
C12_Witness ==
    /\ kind = "att"
    /\ store = "open"
    /\ ret = "Ok(())"
    /\ last_check = "SameVote"
    /\ Len(data) = 2
    /\ Cardinality(disk) = 2

C14_RejectionRepeats ==
    \A c \in Candidates(kind), io_ok \in BOOLEAN :
        ~check_slashing(kind, c, data).ok
        => ~ENABLED (/\ update_if_valid(c, io_ok)
                     /\ ~(/\ store' = "open"
                          /\ pc' = "idle"
                          /\ disk' = disk
                          /\ data' = data
                          /\ ~check_slashing(kind, c, data').ok
                          /\ check_slashing(kind, c, data').kind = ret'))

\* A second block for a slot of the history was refused.
C14_Witness ==
    /\ kind = "block"
    /\ store = "open"
    /\ pc = "idle"
    /\ ret = "DoubleBlockProposal"
    /\ last_check = "DoubleBlockProposal"
    /\ okd # {}

C21_EmptyFailsOnExistingDatabase ==
    file = "db" => ~ENABLED (empty /\ ret' = "Ok(HistoryInfo)" /\ store' = "open")

\* C25: on an empty history every block header is accepted with index 0 and
\* reason EmptyHistory; on a history with records a header whose slot is above
\* the last record's is accepted with the length as index and reason Valid.
C25_BlockAcceptedAtEnd ==
    kind = "block"
    => \A c \in BlockHeaders :
          LET check == check_for_proposer_slashing(c, data)
          IN  /\ Len(data) = 0
                 => (check.ok /\ check.insert_index = 0 /\ check.reason = "EmptyHistory")
              /\ (Len(data) > 0 /\ c.slot > data[Len(data)].slot)
                 => (/\ check.ok
                     /\ check.insert_index = Len(data)
                     /\ check.reason = "Valid")

\* A third block, of a later slot than the two before it, was recorded at the
\* end of the history.
C25_Witness ==
    /\ kind = "block"
    /\ pc = "idle"
    /\ ret = "Ok(())"
    /\ last_check = "Valid"
    /\ Len(data) = 3
    /\ Cardinality(disk) = 3

\* C26: on a history with records a header whose slot is below the first
\* record's is rejected with PruningError whatever its root, and no call of
\* update_if_valid on it returns anything else.
C26_BlockBelowFirstIsPruningError ==
    kind = "block"
    => \A c \in BlockHeaders :
          (Len(data) > 0 /\ c.slot < data[1].slot)
          => /\ check_for_proposer_slashing(c, data) = NotSafe("PruningError")
             /\ \A io_ok \in BOOLEAN :
                   ~ENABLED (update_if_valid(c, io_ok) /\ ret' # "PruningError")

\* A header below the first of two records was refused.
C26_Witness ==
    /\ kind = "block"
    /\ store = "open"
    /\ ret = "PruningError"
    /\ last_check = "PruningError"
    /\ Len(data) = 2

\* C27: a header whose slot no record has, with a record below it and a record
\* above it, is rejected with BlockSlotTooEarly, and the index the search
\* locates is that of the last record whose slot is not above the header's.
C27_BlockBetweenIsSlotTooEarly ==
    kind = "block"
    => \A c \in BlockHeaders :
          (/\ \A i \in 1 .. Len(data) : data[i].slot # c.slot
           /\ \E i \in 1 .. Len(data) : data[i].slot < c.slot
           /\ \E i \in 1 .. Len(data) : data[i].slot > c.slot)
          => LET index == Len(data) - 1 - rev_position(data, c.slot)
             IN  /\ check_for_proposer_slashing(c, data) = NotSafe("BlockSlotTooEarly")
                 /\ index + 1 \in 1 .. Len(data)
                 /\ data[index + 1].slot <= c.slot
                 /\ \A i \in 1 .. Len(data) : data[i].slot <= c.slot => i <= index + 1

\* A header between the slots of two records was refused.
C27_Witness ==
    /\ kind = "block"
    /\ store = "open"
    /\ ret = "BlockSlotTooEarly"
    /\ last_check = "BlockSlotTooEarly"
    /\ Len(data) = 2
    /\ data[1].slot + 1 < data[2].slot

\* C28: an attestation with the target epoch of a record of the history and
\* another signing root, whatever its source epoch, is refused by
\* update_if_valid with DoubleVote and is added neither to the table nor to the
\* history.
C28_DoubleVoteRejected ==
    kind = "att"
    => \A c \in AttestationDatas :
          (\E i \in 1 .. Len(data) : /\ data[i].target_epoch = c.target
                                     /\ data[i].signing_root # tree_hash_root(c))
          => \A io_ok \in BOOLEAN :
                ~ENABLED (/\ update_if_valid(c, io_ok)
                          /\ ~(/\ ret' = "DoubleVote"
                               /\ disk' = disk
                               /\ data' = data
                               /\ pc' = "idle"))

\* A second vote for the target of a record was refused.
C28_Witness ==
    /\ kind = "att"
    /\ store = "open"
    /\ ret = "DoubleVote"
    /\ last_check = "DoubleVote"
    /\ Len(data) >= 1
    /\ Cardinality(disk) = Len(data)

C30_SurroundingVoteRejected ==
    kind = "att"
    => \A c \in AttestationDatas :
          (/\ \A i \in 1 .. Len(data) : data[i].target_epoch # c.target
           /\ \A i \in 1 .. Len(data) : ~(/\ data[i].source_epoch < c.source
                                           /\ data[i].target_epoch > c.target)
           /\ \E i \in 1 .. Len(data) : /\ data[i].source_epoch > c.source
                                        /\ data[i].target_epoch < c.target)
          => \A io_ok \in BOOLEAN :
                ~ENABLED (/\ update_if_valid(c, io_ok)
                          /\ ~(/\ ret' = "SurroundingVote"
                               /\ disk' = disk
                               /\ data' = data))

\* A vote spanning a record was refused.
C30_Witness ==
    /\ kind = "att"
    /\ store = "open"
    /\ ret = "SurroundingVote"
    /\ last_check = "SurroundingVote"
    /\ Len(data) >= 1

\* The two attestations of scenario A2, (source 1, target 8) and (source 3,
\* target 5), with the epochs 1 < 3 < 5 < 8 taken in the same order from Keys.
a2_outer == [source |-> 0, target |-> Half, variant |-> 1]
a2_inner == [source |-> 1, target |-> 2, variant |-> 1]

as_ssz_bytes(v) ==
    [i \in 1 .. 2 * Len(v) |->
        IF i % 2 = 1 THEN v[(i + 1) \div 2].slot ELSE v[i \div 2].signing_root]

\* Vec<SignedBlock>::from_ssz_bytes on bytes that hold whole items.
from_ssz_bytes(bytes) ==
    [i \in 1 .. (Len(bytes) \div 2) |->
        SignedBlock_new(bytes[2 * i - 1], bytes[2 * i])]

\* The headers block_builder gives the threads.
RunHeaders == {b \in BlockHeaders : b.slot \in RunSlots}

\* The histories a file left by an earlier run may hold.
EarlierFiles ==
    {AbsentFile} \cup
    {FileOf(as_ssz_bytes(<<SignedBlock_from(h)>>)) :
        h \in {b \in RunHeaders : b.variant = 1}}

InitRun ==
    /\ kind = "block"
    /\ file = "absent"
    /\ StoreIdle
    /\ rfile \in EarlierFiles
    /\ RunIdle

\* try_from, File::open: NotFound gives a HistoryInfo over vec![].
try_from_open(t) ==
    /\ tpc[t] = "start"
    /\ IF ~rfile.exists
       THEN /\ tpc' = [tpc EXCEPT ![t] = "check"]
            /\ tdata' = [tdata EXCEPT ![t] = <<>>]
            /\ tloaded' = [tloaded EXCEPT ![t] = <<>>]
       ELSE /\ tpc' = [tpc EXCEPT ![t] = "load_lock"]
            /\ UNCHANGED <<tdata, tloaded>>
    /\ UNCHANGED <<rfile, rlock, tmutex, tcand, tidx, written>>

\* try_from, file.lock_exclusive(): waits until the advisory lock is free.
try_from_lock(t) ==
    /\ tpc[t] = "load_lock"
    /\ rlock = 0
    /\ rlock' = t
    /\ tpc' = [tpc EXCEPT ![t] = "load_read"]
    /\ UNCHANGED <<rfile, tdata, tloaded, tmutex, tcand, tidx, written>>

\* try_from, read_to_end, unlock, Vec::from_ssz_bytes, the new Mutex.
try_from_read(t) ==
    /\ tpc[t] = "load_read"
    /\ rlock' = 0
    /\ tdata' = [tdata EXCEPT ![t] = from_ssz_bytes(rfile.bytes)]
    /\ tloaded' = [tloaded EXCEPT ![t] = from_ssz_bytes(rfile.bytes)]
    /\ tpc' = [tpc EXCEPT ![t] = "check"]
    /\ UNCHANGED <<rfile, tmutex, tcand, tidx, written>>

\* run(): block_builder, check_for_slashing (the mutex is taken and released
\* inside it) and the match on its result.
check_for_slashing(t, block) ==
    /\ tpc[t] = "check"
    /\ ~tmutex[t]
    /\ tcand' = [tcand EXCEPT ![t] = block]
    /\ LET check == check_for_proposer_slashing(block, tdata[t])
       IN  IF ~check.ok
           THEN /\ tpc' = [tpc EXCEPT ![t] = "panicked"]
                /\ UNCHANGED tidx
           ELSE IF check.reason = "SameVote"
           THEN /\ tpc' = [tpc EXCEPT ![t] = "done"]
                /\ UNCHANGED tidx
           ELSE /\ tpc' = [tpc EXCEPT ![t] = "uw_insert"]
                /\ tidx' = [tidx EXCEPT ![t] = check.insert_index]
    /\ UNCHANGED <<rfile, rlock, tdata, tloaded, tmutex, written>>

\* update_and_write: self.mutex.lock() and data_history.insert(index, data).
update_and_write_insert(t) ==
    /\ tpc[t] = "uw_insert"
    /\ ~tmutex[t]
    /\ tidx[t] <= Len(tdata[t])
    /\ tmutex' = [tmutex EXCEPT ![t] = TRUE]
    /\ tdata' = [tdata EXCEPT ![t] =
                    VecInsert(tdata[t], tidx[t], SignedBlock_from(tcand[t]))]
    /\ tpc' = [tpc EXCEPT ![t] = "uw_create"]
    /\ UNCHANGED <<rfile, rlock, tloaded, tcand, tidx, written>>

\* update_and_write: File::create, which creates the file or truncates it.
update_and_write_create(t) ==
    /\ tpc[t] = "uw_create"
    /\ rfile' = FileOf(<<>>)
    /\ tpc' = [tpc EXCEPT ![t] = "uw_lock"]
    /\ UNCHANGED <<rlock, tdata, tloaded, tmutex, tcand, tidx, written>>

\* update_and_write: file.lock_exclusive()?. lock_ok: the call meets no error and
\* waits for the lock; otherwise `?` returns the error (the guard is dropped).
update_and_write_lock(t, lock_ok) ==
    /\ tpc[t] = "uw_lock"
    /\ IF lock_ok
       THEN /\ rlock = 0
            /\ rlock' = t
            /\ tpc' = [tpc EXCEPT ![t] = "uw_write"]
            /\ UNCHANGED tmutex
       ELSE /\ tpc' = [tpc EXCEPT ![t] = "uw_err"]
            /\ tmutex' = [tmutex EXCEPT ![t] = FALSE]
            /\ UNCHANGED rlock
    /\ UNCHANGED <<rfile, tdata, tloaded, tcand, tidx, written>>

\* update_and_write: file.write_all(&data_history.as_ssz_bytes()).
update_and_write_write(t) ==
    /\ tpc[t] = "uw_write"
    /\ rfile' = FileOf(as_ssz_bytes(tdata[t]))
    /\ written' = written \cup {SignedBlock_from(tcand[t])}
    /\ tpc' = [tpc EXCEPT ![t] = "uw_unlock"]
    /\ UNCHANGED <<rlock, tdata, tloaded, tmutex, tcand, tidx>>

\* update_and_write returning without file.unlock().
update_and_write_unlock_forgotten(t) ==
    /\ tpc[t] = "uw_unlock"
    /\ tmutex' = [tmutex EXCEPT ![t] = FALSE]
    /\ tpc' = [tpc EXCEPT ![t] = "done"]
    /\ UNCHANGED <<rfile, rlock, tdata, tloaded, tcand, tidx, written>>

\* update_and_write: file.unlock()?, Ok(()); the mutex guard is dropped.
update_and_write_unlock(t) ==
    /\ tpc[t] = "uw_unlock"
    /\ rlock' = 0
    /\ tmutex' = [tmutex EXCEPT ![t] = FALSE]
    /\ tpc' = [tpc EXCEPT ![t] = "done"]
    /\ UNCHANGED <<rfile, tdata, tloaded, tcand, tidx, written>>

NextRun ==
    \/ (\E t \in Threads : try_from_open(t) /\ UNCHANGED storeVars)
    \/ (\E t \in Threads : try_from_lock(t) /\ UNCHANGED storeVars)
    \/ (\E t \in Threads : try_from_read(t) /\ UNCHANGED storeVars)
    \/ (\E t \in Threads, block \in RunHeaders :
            check_for_slashing(t, block) /\ UNCHANGED storeVars)
    \/ (\E t \in Threads : update_and_write_insert(t) /\ UNCHANGED storeVars)
    \/ (\E t \in Threads : update_and_write_create(t) /\ UNCHANGED storeVars)
    \/ (\E t \in Threads, lock_ok \in BOOLEAN :
            update_and_write_lock(t, lock_ok) /\ UNCHANGED storeVars)
    \/ (\E t \in Threads : update_and_write_write(t) /\ UNCHANGED storeVars)
    \/ (\E t \in Threads : update_and_write_unlock(t) /\ UNCHANGED storeVars)

SpecRun == InitRun /\ [][NextRun]_vars

\* One step of the closure thread t runs in run().
thread(t) ==
    \/ try_from_open(t)
    \/ try_from_lock(t)
    \/ try_from_read(t)
    \/ \E block \in RunHeaders : check_for_slashing(t, block)
    \/ update_and_write_insert(t)
    \/ update_and_write_create(t)
    \/ \E lock_ok \in BOOLEAN : update_and_write_lock(t, lock_ok)
    \/ update_and_write_write(t)
    \/ update_and_write_unlock(t)

\* run() under a scheduler that lets no thread that can take a step wait for
\* ever (thread::spawn, handle.join()).
SpecRunFair ==
    /\ InitRun
    /\ [][NextRun]_vars
    /\ \A t \in Threads : WF_vars(thread(t) /\ UNCHANGED storeVars)

\* Either program: a HistoryInfo of slashing_protection.rs over its path, or
\* the threads of main.rs over their file.
InitAll == Init \/ InitRun

NextAll ==
    \/ (RunIdle /\ rfile = AbsentFile /\ Next)
    \/ (StoreIdle /\ file = "absent" /\ kind = "block" /\ NextRun)

SpecAll == InitAll /\ [][NextAll]_vars

(***************************************************************************)
(* Properties of main.rs (specification SpecRun).                          *)
(***************************************************************************)
\* The records the history file holds.
file_records == Range(from_ssz_bytes(rfile.bytes))

\* C4: no two blocks with the same slot and different signing roots are both
\* approved by check_for_slashing and written by update_and_write.
C4_NoConflictingBlocksWritten ==
    \A r, q \in written : r.slot = q.slot => r.signing_root = q.signing_root

\* C9: at every step each record of a thread's in-memory history is already in
\* the history file.
C9_MemoryWithinFile ==
    \A t \in Threads : Range(tdata[t]) \subseteq file_records

\* C10: when update_and_write returns an error the in-memory history is what it
\* was before the call.
C10_FailedWriteLeavesMemory ==
    \A t \in Threads : tpc[t] = "uw_err" => tdata[t] = tloaded[t]

\* Every thread of run() has come to the end of its closure without an I/O
\* error: by a panic on a rejection, or past check_for_slashing and, unless the
\* vote was the same, update_and_write.
Finished == \A t \in Threads : tpc[t] \in {"done", "panicked"}

\* The threads whose update_and_write returned Ok(()).
Recorded == {t \in Threads : tpc[t] = "done" /\ tdata[t] # tloaded[t]}

\* The history the file holds.
file_history == from_ssz_bytes(rfile.bytes)

\* C15: once the threads, each with a block header of its own, have finished,
\* as many calls have recorded as there are distinct slots among the recorded
\* headers, and the history in the file is in strictly ascending slot order.
C15_OneRecordedPerSlot ==
    (/\ Finished
     /\ \A t, u \in Threads : t # u => tcand[t] # tcand[u])
    => /\ Cardinality(Recorded) = Cardinality({tcand[t].slot : t \in Recorded})
       /\ \A i, j \in 1 .. Len(file_history) :
             i < j => file_history[i].slot < file_history[j].slot

\* C16: between a call's rule check and the end of its write (the mutex taken
\* for the splice, the file written, the locks released) no other call runs its
\* rule check, its splice or its write.
C16_CheckWriteSpliceOneCriticalSection ==
    [][\A t, u \in Threads :
          (/\ t # u
           /\ tpc[t] \in {"uw_insert", "uw_create", "uw_lock", "uw_write", "uw_unlock"}
           /\ tpc[u] \in {"check", "uw_insert", "uw_write"})
          => tpc'[u] = tpc[u]]_vars

\* All the orders in which the threads can be lined up.
Orders ==
    {o \in [1 .. NumThreads -> Threads] :
        \A i, j \in 1 .. NumThreads : i # j => o[i] # o[j]}

\* The history after the first n threads of the order have run one after the
\* other, each its whole check_for_slashing and update_and_write, from h0.
RECURSIVE sequential_history(_, _, _)
sequential_history(order, n, h0) ==
    IF n = 0 THEN h0
    ELSE LET h == sequential_history(order, n - 1, h0)
             block == tcand[order[n]]
             check == check_for_proposer_slashing(block, h)
         IN  IF check.ok /\ check.reason # "SameVote"
             THEN VecInsert(h, check.insert_index, SignedBlock_from(block))
             ELSE h

\* What the n-th thread of the order is answered in that sequential run.
sequential_verdict(order, n, h0) ==
    LET check == check_for_proposer_slashing(tcand[order[n]],
                                              sequential_history(order, n - 1, h0))
    IN  IF ~check.ok THEN "Err"
        ELSE IF check.reason = "SameVote" THEN "SameVote" ELSE "Recorded"

\* What thread t was answered in the run.
observed_verdict(t) ==
    IF tpc[t] = "panicked" THEN "Err"
    ELSE IF tdata[t] = tloaded[t] THEN "SameVote" ELSE "Recorded"

\* C17: once the threads have finished, there is an order of the threads and a
\* history left by the earlier run such that running the calls one after the
\* other in that order gives each thread the answer it got and leaves the
\* history the file now holds.
C17_Linearizable ==
    Finished
    => \E order \in Orders, f0 \in EarlierFiles :
          LET h0 == from_ssz_bytes(f0.bytes)
          IN  /\ file_history = sequential_history(order, NumThreads, h0)
              /\ \A n \in 1 .. NumThreads :
                    observed_verdict(order[n]) = sequential_verdict(order, n, h0)

\* C18: from the moment try_from has given a thread its HistoryInfo until the
\* thread is done with it, that thread holds the file lock, and no other thread
\* has a HistoryInfo over the file.
C18_FileLockedWhileOpen ==
    \A t \in Threads :
        tpc[t] \in {"check", "uw_insert", "uw_create", "uw_lock", "uw_write", "uw_unlock"}
        => /\ rlock = t
           /\ \A u \in Threads :
                 u # t => tpc[u] \in {"start", "load_lock", "done", "panicked", "uw_err"}

\* C38: a try_from that reads the file while other threads are in
\* update_and_write loads a complete history, the one before a write or the one
\* after it: it loads the empty history only when the file never held a record
\* (no thread loaded one from it and none was written to it).
C38_LoadSeesCompleteHistory ==
    \A t \in Threads :
        (tpc[t] = "load_read" /\ from_ssz_bytes(rfile.bytes) = <<>>)
        => /\ written = {}
           /\ \A u \in Threads : tloaded[u] = <<>>

C23_RecordsOnlyGrow ==
    [][/\ disk \subseteq disk'
       /\ Range(from_ssz_bytes(rfile.bytes)) \subseteq Range(from_ssz_bytes(rfile'.bytes))]_vars

(***************************************************************************)
(* Properties of main.rs under fair scheduling (specification SpecRunFair).*)
(***************************************************************************)
\* Thread t has left its closure: at its end, by the panic on a rejection, or
\* by the unwrap of an Err of update_and_write.
returned(t) == tpc[t] \in {"done", "panicked", "uw_err"}

C35_AcceptedKeyNotOnDisk ==
    (store = "open" /\ pc = "idle")
    => \A c \in Candidates(kind) :
          LET check == check_slashing(kind, c, data)
          IN  (check.ok /\ check.reason \in {"EmptyHistory", "Valid"})
              => ~unique_violated(kind, disk, c)

\* The same for a store whose history is what the table holds.
C35_AcceptedKeyNotOnDiskWhenLoaded ==
    (store = "open" /\ pc = "idle" /\ data = disk_history(kind, disk))
    => \A c \in Candidates(kind) :
          LET check == check_slashing(kind, c, data)
          IN  (check.ok /\ check.reason \in {"EmptyHistory", "Valid"})
              => ~unique_violated(kind, disk, c)

\* The part of C36 that concerns one HistoryInfo: a block header whose INSERT is
\* run has a slot above every slot of the in-memory history and the length as
\* insert index, and the splice appends it, leaving the records before it in
\* place.
C36_BlockAppendedToHistory ==
    kind = "block"
    => /\ \A c \in BlockHeaders, io_ok \in BOOLEAN :
             ~ENABLED (/\ update_if_valid(c, io_ok)
                       /\ pc' = "splice"
                       /\ ~(/\ pend'.insert_index = Len(data)
                            /\ \A i \in 1 .. Len(data) : data[i].slot < c.slot))
       /\ pc = "splice"
          => ~ENABLED (/\ insert_splice
                       /\ data' # Append(data, SignedBlock_from(pend.incoming_data)))

\* C36: the block store is append-only in slot order: every block header that
\* gets recorded has the history length as insert index and a slot above every
\* slot of the history and above the slot of every block recorded before it
\* (the rows of the table), and the splice appends it.
C36_BlocksRecordedInSlotOrder ==
    /\ C36_BlockAppendedToHistory
    /\ kind = "block"
       => \A c \in BlockHeaders, io_ok \in BOOLEAN :
             ~ENABLED (/\ update_if_valid(c, io_ok)
                       /\ pc' = "splice"
                       /\ ~(\A r \in disk : as_u64(r.slot) < c.slot))

\* The candidates whose row the table holds.
recorded(k, rows) == {c \in Candidates(k) : RowOf(k, c) \in rows}

\* C33: whatever rows the table holds, the history open loads has, for every
\* recorded candidate, a record with the key that was recorded (also for keys
\* the table holds as negative integers), and is ascending by the unsigned key.
C33_KeysReadBackUnsignedAscending ==
    LET history == load_data(kind, disk)
    IN  /\ \A c \in recorded(kind, disk) :
              \E i \in 1 .. Len(history) :
                  /\ RecKey(kind, history[i]) = KeyOf(kind, c)
                  /\ history[i].signing_root = RootOf(kind, c)
        /\ \A i, j \in 1 .. Len(history) :
              i < j => RecKey(kind, history[i]) < RecKey(kind, history[j])

\* The same for the keys that `where slot` does not drop.
C33_NonZeroKeysReadBack ==
    LET history == load_data(kind, disk)
    IN  /\ \A c \in recorded(kind, disk) :
              (kind = "block" => c.slot # 0)
              => \E i \in 1 .. Len(history) :
                    /\ RecKey(kind, history[i]) = KeyOf(kind, c)
                    /\ history[i].signing_root = RootOf(kind, c)
        /\ \A i, j \in 1 .. Len(history) :
              i < j => RecKey(kind, history[i]) < RecKey(kind, history[j])

ascending_by_target(h) ==
    \A i, j \in 1 .. Len(h) : i < j => h[i].target_epoch < h[j].target_epoch

\* Whether a candidate and a record share their target or one surrounds the
\* other.
conflicts(c, r) ==
    \/ r.target_epoch = c.target
    \/ r.source_epoch < c.source /\ r.target_epoch > c.target
    \/ r.source_epoch > c.source /\ r.target_epoch < c.target

\* The history the test expects: attestations 1, 3, 4, 2, 5.
interlaced_expected ==
    <<SignedAttestation_new(0, 3, <<0, 3, 1>>),
      SignedAttestation_new(0, 4, <<0, 4, 1>>),
      SignedAttestation_new(1, 5, <<1, 5, 1>>),
      SignedAttestation_new(2, 6, <<2, 6, 1>>),
      SignedAttestation_new(3, 7, <<3, 7, 1>>)>>

C32_WitnessInFlight ==
    /\ pc = "splice"
    /\ pend.insert_index < Len(data)

(***************************************************************************)
(* Properties of a block store whose caller notes the rejections           *)
(* (specification SpecNoted).                                              *)
(***************************************************************************)
\* C39: a block header that the rule check has rejected is rejected by the rule
\* check of every store that is open later on the same file, with the same
\* kind, and no later call with it records it or answers Ok(()).
C39_RejectionIsPermanent ==
    (rejected # NoData /\ rejected # NotKept /\ store = "open" /\ pc = "idle")
    => LET check == check_slashing(kind, rejected.incoming_data, data)
       IN  /\ ~check.ok
           /\ check.kind = rejected.kind
           /\ \A io_ok \in BOOLEAN :
                 ~ENABLED (/\ update_if_valid(rejected.incoming_data, io_ok)
                           /\ (ret' = "Ok(())" \/ pc' = "splice"))

\* A store has recorded the block header that an earlier store on the same file
\* rejected.
C39_RejectedWasRecorded ==
    /\ rejected # NoData
    /\ rejected # NotKept
    /\ store = "open"
    /\ pc = "idle"
    /\ ret = "Ok(())"
    /\ last_check = "EmptyHistory"
    /\ data = <<SignedBlock_from(rejected.incoming_data)>>

====
